---- MODULE Spec2Model ----
(***************************************************************************)
(* A model of zip-extensions' reading side: src/src/read.rs (whole-archive *)
(* and single-entry extraction, entry lookup, signature sniffing) and      *)
(* src/src/file_utils.rs (the write primitive, make_relative_path).        *)
(*                                                                         *)
(* Paths are sequences of tokens, the text of a path split at its          *)
(* separators: "/" as first token is the root, ".." the parent directory,  *)
(* "." the current directory, "" an empty segment (a doubled or trailing   *)
(* separator), any other token a normal name.  The filesystem is a         *)
(* function from resolved absolute paths (sequences of names, <<>> the     *)
(* root directory) to nodes.  It holds no symbolic links.                  *)
(***************************************************************************)
EXTENDS Integers, Sequences, FiniteSets, TLC

VARIABLES
    archive,      \* the opened archive: its sequence of entries
    fs,           \* the filesystem: resolved path -> node
    fs0,          \* the filesystem when the operation was called
    op,           \* the operation called and its arguments
    pc,           \* "idle", "extract" (inside extract's loop) or "done"
    file_number_, \* extract's loop variable (0-based entry index)
    result,       \* what the operation returned: "none", "Ok" or the error
    buffer,       \* the caller's buffer of extract_file_to_memory
    touched,      \* resolved paths the operation created or wrote
    readLog,      \* entry indices extract has passed to by_index, in order
    found,        \* what file_number returned: an index, or None
    sniffFile,    \* try_is_zip's file: its bytes, or NoFile
    sniffResult,  \* try_is_zip's and is_zip's results
    relRoot,      \* make_relative_path's root
    relCurrent,   \* make_relative_path's current
    relResult     \* make_relative_path's result

vars == <<archive, fs, fs0, op, pc, file_number_, result, buffer, touched,
          readLog, found, sniffFile, sniffResult, relRoot, relCurrent, relResult>>

extractVars == <<archive, fs, fs0, op, pc, file_number_, result, buffer,
                 touched, readLog, found>>
sniffVars == <<sniffFile, sniffResult>>
relVars == <<relRoot, relCurrent, relResult>>

----------------------------------------------------------------------------
(* Bounds *)

\* the largest number of entries of an archive
MaxEntries == 2
\* the largest number of bytes of a sniffed file
MaxFileLen == 4
\* the largest number of tokens after the root of a path given to
\* make_relative_path
MaxDepth == 3

\* Option<usize>
None == <<>>
Some(i) == <<i>>

\* a file that cannot be opened
NoFile == <<256>>

Min(a, b) == IF a < b THEN a ELSE b

----------------------------------------------------------------------------
(* std::path *)

IsNormal(tok) == tok \notin {"/", "..", ".", ""}

RECURSIVE componentsFrom(_, _)
componentsFrom(p, i) ==
    IF i > Len(p) THEN <<>>
    ELSE IF p[i] = "" \/ (p[i] = "." /\ i > 1)
         THEN componentsFrom(p, i + 1)
         ELSE <<p[i]>> \o componentsFrom(p, i + 1)

\* Path::components: empty segments and every "." but a leading one go; the
\* root, ".." and the names stay.
components(p) == componentsFrom(p, 1)

\* PartialEq of Path and PathBuf compares the components.
path_eq(p, q) == components(p) = components(q)

IsAbsolute(p) == p # <<>> /\ p[1] = "/"

\* PathBuf::push: an absolute path replaces the buffer; otherwise a
\* separator is added unless the buffer ends with one, then the path.
push(base, p) ==
    LET stem == IF base # <<>> /\ base[Len(base)] = ""
                THEN SubSeq(base, 1, Len(base) - 1) ELSE base
    IN  IF IsAbsolute(p) THEN p
        ELSE IF base = <<>> THEN p
        ELSE IF p = <<>> THEN stem \o <<"">>
        ELSE stem \o p

\* Path::join
join(base, p) == push(base, p)

----------------------------------------------------------------------------
(* src/src/read.rs: try_is_zip, is_zip *)

ZIP_SIGNATURE == <<80, 75>>                  \* [0x50, 0x4b]
ZIP_ARCHIVE_FORMAT == <<3, 4, 5, 6, 7, 8>>   \* [0x03 .. 0x08]

\* the byte values the sniffed files are made of
ByteVals == {80, 75, 3, 4, 5, 6, 7, 8, 255, 0}

RECURSIVE SeqsUpTo(_, _)
SeqsUpTo(S, n) ==
    IF n = 0 THEN {<<>>}
    ELSE LET shorter == SeqsUpTo(S, n - 1)
         IN  shorter \cup {Append(s, x) : s \in shorter, x \in S}

SniffFiles == SeqsUpTo(ByteVals, MaxFileLen) \cup {NoFile}

\* a sub-signature pair matched on both of its bytes
FormatPairMatchesBoth(buf, i) ==
    buf[2 + 1] = ZIP_ARCHIVE_FORMAT[i + 1] /\ buf[3 + 1] = ZIP_ARCHIVE_FORMAT[i + 2]

\* one sub-signature pair of try_is_zip's second loop: the third byte against
\* the even-indexed format byte, the fourth against the odd-indexed one
FormatPairMatches(buf, i) ==
    buf[2 + 1] = ZIP_ARCHIVE_FORMAT[i + 1] \/ buf[3 + 1] = ZIP_ARCHIVE_FORMAT[i + 2]

\* ZipResult<bool> as [ok, value]; File::open fails on NoFile.  One read of
\* a regular file at offset 0 fills the 4-byte buffer when the file has 4.
try_is_zip(file) ==
    IF file = NoFile THEN [ok |-> FALSE, value |-> FALSE]
    ELSE
      LET buf == [i \in 1..4 |-> IF i <= Len(file) THEN file[i] ELSE 0]
          bytes_read == Min(4, Len(file))
      IN  IF bytes_read = 4
          THEN IF \E i \in 0..(Len(ZIP_SIGNATURE) - 1) : buf[i + 1] # ZIP_SIGNATURE[i + 1]
               THEN [ok |-> TRUE, value |-> FALSE]
               ELSE IF \E i \in {j \in 0..(Len(ZIP_ARCHIVE_FORMAT) - 1) : j % 2 = 0} :
                          FormatPairMatches(buf, i)
                    THEN [ok |-> TRUE, value |-> TRUE]
                    ELSE [ok |-> TRUE, value |-> FALSE]
          ELSE [ok |-> TRUE, value |-> FALSE]

\* unwrap_or_default
is_zip(file) ==
    LET r == try_is_zip(file) IN IF r.ok THEN r.value ELSE FALSE

SniffInit ==
    /\ sniffFile \in SniffFiles
    /\ sniffResult = [fn |-> "none", ok |-> FALSE, value |-> FALSE]

TryIsZip ==
    /\ sniffResult.fn = "none"
    /\ sniffResult' = [fn |-> "try_is_zip", ok |-> try_is_zip(sniffFile).ok,
                       value |-> try_is_zip(sniffFile).value]
    /\ UNCHANGED sniffFile

IsZip ==
    /\ sniffResult.fn = "none"
    /\ sniffResult' = [fn |-> "is_zip", ok |-> TRUE, value |-> is_zip(sniffFile)]
    /\ UNCHANGED sniffFile

----------------------------------------------------------------------------
(* src/src/file_utils.rs: make_relative_path *)

RelNames == {"a", "b", "x"}

RelPaths ==
    LET tails == SeqsUpTo(RelNames, MaxDepth)
    IN  tails \cup {<<"/">> \o t : t \in tails}

RECURSIVE make_relative_path_loop(_, _, _, _)
make_relative_path_loop(root_components, current_components, i, res) ==
    IF i >= Len(current_components) THEN res
    ELSE IF i < Len(root_components)
         THEN IF root_components[i + 1] # current_components[i + 1]
              THEN res
              ELSE make_relative_path_loop(root_components, current_components, i + 1, res)
         ELSE make_relative_path_loop(root_components, current_components, i + 1,
                                      push(res, <<current_components[i + 1]>>))

RECURSIVE make_relative_path_skip(_, _, _, _)
make_relative_path_skip(root_components, current_components, i, res) ==
    IF i >= Len(current_components) THEN res
    ELSE IF i < Len(root_components)
              /\ root_components[i + 1] = current_components[i + 1]
         THEN make_relative_path_skip(root_components, current_components, i + 1, res)
         ELSE make_relative_path_skip(root_components, current_components, i + 1,
                                      push(res, <<current_components[i + 1]>>))

\* the loop with the divergent components kept instead of the break
make_relative_path_keep(root, current) ==
    make_relative_path_skip(components(root), components(current), 0, <<>>)

make_relative_path(root, current) ==
    make_relative_path_loop(components(root), components(current), 0, <<>>)

RelInit ==
    /\ relRoot \in RelPaths
    /\ relCurrent \in RelPaths
    /\ relResult = [called |-> FALSE, path |-> <<>>]

MakeRelativePath ==
    /\ ~relResult.called
    /\ relResult' = [called |-> TRUE, path |-> make_relative_path(relRoot, relCurrent)]
    /\ UNCHANGED <<relRoot, relCurrent>>


----------------------------------------------------------------------------
(* The filesystem and the std::fs calls the code makes *)

DirNode == [kind |-> "dir", data |-> <<>>]
FileNode(bytes) == [kind |-> "file", data |-> bytes]

IsDirKey(fsys, k) == k \in DOMAIN fsys /\ fsys[k].kind = "dir"
IsFileKey(fsys, k) == k \in DOMAIN fsys /\ fsys[k].kind = "file"

Parent(k) == IF k = <<>> THEN <<>> ELSE SubSeq(k, 1, Len(k) - 1)

\* Path resolution as the kernel does it, from the root: every token is
\* looked up in a directory that exists.  [ok, key]; the key itself may not
\* exist.
RECURSIVE Walk(_, _, _, _)
Walk(fsys, toks, i, cur) ==
    IF i > Len(toks) THEN [ok |-> TRUE, key |-> cur]
    ELSE IF toks[i] = "/" THEN Walk(fsys, toks, i + 1, <<>>)
    ELSE IF ~IsDirKey(fsys, cur) THEN [ok |-> FALSE, key |-> cur]
    ELSE IF toks[i] \in {"", "."} THEN Walk(fsys, toks, i + 1, cur)
    ELSE IF toks[i] = ".." THEN Walk(fsys, toks, i + 1, Parent(cur))
    ELSE Walk(fsys, toks, i + 1, Append(cur, toks[i]))

Resolve(fsys, path) == Walk(fsys, path, 1, <<>>)

\* Path::exists
path_exists(fsys, path) ==
    Resolve(fsys, path).ok /\ Resolve(fsys, path).key \in DOMAIN fsys

\* Path::is_dir
is_dir(fsys, path) ==
    Resolve(fsys, path).ok /\ IsDirKey(fsys, Resolve(fsys, path).key)

\* the io::ErrorKind of a lookup that stops at cur, which is no directory
LookupError(fsys, cur) ==
    IF cur \in DOMAIN fsys THEN "NotADirectory" ELSE "NotFound"

\* File::create: the parent must be a directory, the last token a name, and
\* the path no directory; the file is created or truncated.
\* [ok, err, fs, key]
File_create(fsys, path) ==
    LET n == Len(path)
        parent == Walk(fsys, SubSeq(path, 1, n - 1), 1, <<>>)
        key == Append(parent.key, path[n])
        failed(e) == [ok |-> FALSE, err |-> e, fs |-> fsys, key |-> <<>>]
    IN  IF n = 0 THEN failed("NotFound")
        ELSE IF ~parent.ok \/ ~IsDirKey(fsys, parent.key)
        THEN failed(LookupError(fsys, parent.key))
        ELSE IF ~IsNormal(path[n]) \/ IsDirKey(fsys, key)
        THEN failed("IsADirectory")
        ELSE [ok |-> TRUE, err |-> "Ok",
              fs |-> [k \in DOMAIN fsys \cup {key} |->
                         IF k = key THEN FileNode(<<>>) ELSE fsys[k]],
              key |-> key]

\* fs::create_dir_all: every missing directory of the path is made; a file
\* in the way is an error, and then nothing has been made.
\* [ok, err, fs, made]
RECURSIVE create_dir_all_from(_, _, _, _, _)
create_dir_all_from(fsys, toks, i, cur, made) ==
    IF ~IsDirKey(fsys, cur)
    THEN [ok |-> FALSE,
          err |-> IF cur \notin DOMAIN fsys THEN "NotFound"
                  ELSE IF i > Len(toks) THEN "AlreadyExists" ELSE "NotADirectory",
          fs |-> fsys, made |-> made]
    ELSE IF i > Len(toks) THEN [ok |-> TRUE, err |-> "Ok", fs |-> fsys, made |-> made]
    ELSE IF toks[i] = "/" THEN create_dir_all_from(fsys, toks, i + 1, <<>>, made)
    ELSE IF toks[i] \in {"", "."} THEN create_dir_all_from(fsys, toks, i + 1, cur, made)
    ELSE IF toks[i] = ".." THEN create_dir_all_from(fsys, toks, i + 1, Parent(cur), made)
    ELSE LET next == Append(cur, toks[i])
         IN  IF next \in DOMAIN fsys
             THEN create_dir_all_from(fsys, toks, i + 1, next, made)
             ELSE create_dir_all_from(
                      [k \in DOMAIN fsys \cup {next} |->
                          IF k = next THEN DirNode ELSE fsys[k]],
                      toks, i + 1, next, made \cup {next})

create_dir_all(fsys, path) == create_dir_all_from(fsys, path, 1, <<>>, {})

----------------------------------------------------------------------------
(* src/src/file_utils.rs: file_write_all_bytes *)

\* What one call of Write::write can do with a buffer: fail, or transfer n
\* of its bytes, at least one when there is one.  [ok, n]
WriteOutcomes(len) ==
    {[ok |-> FALSE, n |-> 0]}
        \cup {[ok |-> TRUE, n |-> n] : n \in {m \in 0..len : m >= Min(len, 1)}}

\* the outcome of a write that transfers every byte
FullWrite(len) == [ok |-> TRUE, n |-> len]

\* the outcome w bounded to a buffer of len bytes
WriteFor(w, len) ==
    IF ~w.ok THEN w
    ELSE IF w.n >= len THEN FullWrite(len)
    ELSE [ok |-> TRUE, n |-> IF w.n < Min(len, 1) THEN Min(len, 1) ELSE w.n]

\* the write with the exists-and-not-overwrite test left out
file_write_all_bytes_unguarded(fsys, path, bytes, overwrite, w) ==
    LET created == File_create(fsys, path)
        out == WriteFor(w, Len(bytes))
    IN  IF ~created.ok
        THEN [res |-> created.err, fs |-> fsys, touched |-> {}]
        ELSE IF ~out.ok
        THEN [res |-> "WriteFailed", fs |-> created.fs, touched |-> {created.key}]
        ELSE [res |-> "Ok",
              fs |-> [created.fs EXCEPT ![created.key] =
                         FileNode(SubSeq(bytes, 1, out.n))],
              touched |-> {created.key}]

\* [res, fs, touched]; w is the outcome of the one file.write(bytes) call,
\* whose count the callers drop.  File::create has truncated the file when
\* set_len or write fails.
file_write_all_bytes(fsys, path, bytes, overwrite, w) ==
    IF path_exists(fsys, path) /\ ~overwrite
    THEN [res |-> "AlreadyExists", fs |-> fsys, touched |-> {}]
    ELSE LET created == File_create(fsys, path)
             out == WriteFor(w, Len(bytes))
         IN  IF ~created.ok
             THEN [res |-> created.err, fs |-> fsys, touched |-> {}]
             ELSE IF ~out.ok
             THEN [res |-> "WriteFailed", fs |-> created.fs, touched |-> {created.key}]
             ELSE [res |-> "Ok",
                   fs |-> [created.fs EXCEPT ![created.key] =
                              FileNode(SubSeq(bytes, 1, out.n))],
                   touched |-> {created.key}]

----------------------------------------------------------------------------
(* The archive, as the zip crate presents it *)

\* An entry: its stored name, is_dir()/is_file() as kind, whether by_index
\* yields it, whether read_to_end decodes it, and its decoded bytes.
Entry(name, kind, readable, intact, data) ==
    [name |-> name, kind |-> kind, readable |-> readable, intact |-> intact,
     data |-> data]

Entries ==
    { Entry(<<"a", "">>, "dir", TRUE, TRUE, <<>>),             \* "a/"
      Entry(<<"a", "b">>, "file", TRUE, TRUE, <<1, 2>>),       \* "a/b"
      Entry(<<"b">>, "file", TRUE, TRUE, <<1>>),               \* "b"
      Entry(<<"b">>, "file", TRUE, TRUE, <<2, 2, 1>>),         \* "b" again
      Entry(<<"..", "b">>, "file", TRUE, TRUE, <<2>>),         \* "../b"
      Entry(<<"/", "a", "">>, "dir", TRUE, TRUE, <<>>),        \* "/a/"
      Entry(<<"..">>, "file", TRUE, TRUE, <<1>>),              \* ".."
      Entry(<<"b">>, "file", FALSE, TRUE, <<1>>),              \* unreadable
      Entry(<<"a">>, "file", TRUE, FALSE, <<2>>),              \* corrupt data
      Entry(<<"b">>, "other", TRUE, TRUE, <<1>>) }             \* a symlink

RECURSIVE ArchivesUpTo(_)
ArchivesUpTo(n) ==
    IF n = 0 THEN {<<>>}
    ELSE LET shorter == ArchivesUpTo(n - 1)
         IN  shorter \cup {Append(a, e) : a \in shorter, e \in Entries}

Archives == ArchivesUpTo(MaxEntries)

\* ZipFile::sanitized_name: the stored name's normal components, in order;
\* separators at the front, "..", "." and the root are dropped.
sanitized_name(next) == SelectSeq(components(next.name), IsNormal)

\* the stored name taken as it is
stored_name(next) == next.name

\* ZipArchive::by_index.  [ok, err, entry]
by_index(arch, file_no) ==
    IF file_no >= Len(arch)
    THEN [ok |-> FALSE, err |-> "FileNotFound", entry |-> Entry(<<>>, "other", FALSE, FALSE, <<>>)]
    ELSE IF ~arch[file_no + 1].readable
    THEN [ok |-> FALSE, err |-> "InvalidArchive", entry |-> arch[file_no + 1]]
    ELSE [ok |-> TRUE, err |-> "Ok", entry |-> arch[file_no + 1]]

\* Read::read_to_end on an entry: appends the decoded bytes.  [ok, buffer]
read_to_end(next, buf) ==
    IF next.intact THEN [ok |-> TRUE, buffer |-> buf \o next.data]
    ELSE [ok |-> FALSE, buffer |-> buf]

----------------------------------------------------------------------------
(* src/src/read.rs: the ZipArchiveExtensions methods *)

RECURSIVE file_number_from(_, _, _)
file_number_from(arch, entry_path, file_no) ==
    IF file_no >= Len(arch) THEN None
    ELSE LET next == by_index(arch, file_no)
         IN  IF next.ok /\ path_eq(sanitized_name(next.entry), entry_path)
             THEN Some(file_no)
             ELSE file_number_from(arch, entry_path, file_no + 1)

RECURSIVE file_number_last_from(_, _, _)
file_number_last_from(arch, entry_path, file_no) ==
    IF file_no < 0 THEN None
    ELSE LET next == by_index(arch, file_no)
         IN  IF next.ok /\ path_eq(sanitized_name(next.entry), entry_path)
             THEN Some(file_no)
             ELSE file_number_last_from(arch, entry_path, file_no - 1)

\* the scan run from the last index downward
file_number_last(arch, entry_path) ==
    file_number_last_from(arch, entry_path, Len(arch) - 1)

\* Option<usize>
file_number(arch, entry_path) == file_number_from(arch, entry_path, 0)

\* the read without the is_file() test
extract_file_to_memory_any(arch, file_no, buf) ==
    LET next == by_index(arch, file_no)
    IN  IF ~next.ok THEN [res |-> next.err, buffer |-> buf]
        ELSE IF read_to_end(next.entry, buf).ok
             THEN [res |-> "Ok", buffer |-> read_to_end(next.entry, buf).buffer]
             ELSE [res |-> "InvalidData", buffer |-> buf]

\* [res, buffer]
extract_file_to_memory(arch, file_no, buf) ==
    LET next == by_index(arch, file_no)
    IN  IF ~next.ok THEN [res |-> next.err, buffer |-> buf]
        ELSE IF next.entry.kind = "file"
        THEN IF read_to_end(next.entry, buf).ok
             THEN [res |-> "Ok", buffer |-> read_to_end(next.entry, buf).buffer]
             ELSE [res |-> "InvalidData", buffer |-> buf]
        ELSE [res |-> "InvalidInput", buffer |-> buf]

\* [res, fs, touched]
extract_file(arch, fsys, file_no, destination_file_path, overwrite, w) ==
    LET read == extract_file_to_memory(arch, file_no, <<>>)
    IN  IF read.res # "Ok"
        THEN [res |-> read.res, fs |-> fsys, touched |-> {}]
        ELSE file_write_all_bytes(fsys, destination_file_path, read.buffer, overwrite, w)

\* where extract puts an entry
extracted_path_raw(target_directory, next) ==
    join(target_directory, stored_name(next))

extracted_path(target_directory, next) ==
    join(target_directory, sanitized_name(next))

\* an iteration that goes on after an entry by_index does not yield
extract_entry_lenient(arch, fsys, file_no, target_directory, w) ==
    LET next == by_index(arch, file_no)
    IN  IF ~next.ok THEN [res |-> "Ok", fs |-> fsys, touched |-> {}]
        ELSE IF next.entry.kind = "dir"
        THEN LET made == create_dir_all(fsys, extracted_path(target_directory, next.entry))
             IN  IF made.ok THEN [res |-> "Ok", fs |-> made.fs, touched |-> made.made]
                 ELSE [res |-> made.err, fs |-> made.fs, touched |-> made.made]
        ELSE IF next.entry.kind = "file"
        THEN LET read == read_to_end(next.entry, <<>>)
             IN  IF ~read.ok THEN [res |-> "InvalidData", fs |-> fsys, touched |-> {}]
                 ELSE file_write_all_bytes(fsys,
                          extracted_path(target_directory, next.entry),
                          read.buffer, TRUE, w)
        ELSE [res |-> "Ok", fs |-> fsys, touched |-> {}]

\* One iteration of extract's loop.  [res, fs, touched]
extract_entry(arch, fsys, file_no, target_directory, w) ==
    LET next == by_index(arch, file_no)
    IN  IF ~next.ok THEN [res |-> next.err, fs |-> fsys, touched |-> {}]
        ELSE IF next.entry.kind = "dir"
        THEN LET made == create_dir_all(fsys, extracted_path(target_directory, next.entry))
             IN  IF made.ok THEN [res |-> "Ok", fs |-> made.fs, touched |-> made.made]
                 ELSE [res |-> made.err, fs |-> made.fs, touched |-> made.made]
        ELSE IF next.entry.kind = "file"
        THEN LET read == read_to_end(next.entry, <<>>)
             IN  IF ~read.ok THEN [res |-> "InvalidData", fs |-> fsys, touched |-> {}]
                 ELSE file_write_all_bytes(fsys,
                          extracted_path(target_directory, next.entry),
                          read.buffer, TRUE, w)
        ELSE [res |-> "Ok", fs |-> fsys, touched |-> {}]

\* zip_extract_file with a missing entry taken to be entry 0
zip_extract_file_first(arch, fsys, entry_path, target_dir, overwrite, w) ==
    LET index == file_number(arch, entry_path)
    IN  extract_file(arch, fsys, IF index = None THEN 0 ELSE index[1],
                     join(target_dir, entry_path), overwrite, w)

\* [res, fs, touched]
zip_extract_file(arch, fsys, entry_path, target_dir, overwrite, w) ==
    LET index == file_number(arch, entry_path)
    IN  IF index = None
        THEN [res |-> "FileNotFound", fs |-> fsys, touched |-> {}]
        ELSE extract_file(arch, fsys, index[1], join(target_dir, entry_path),
                          overwrite, w)

\* [res, buffer]
zip_extract_file_to_memory(arch, entry_path, buf) ==
    LET index == file_number(arch, entry_path)
    IN  IF index = None
        THEN [res |-> "FileNotFound", buffer |-> buf]
        ELSE extract_file_to_memory(arch, index[1], buf)

----------------------------------------------------------------------------
(* The calls *)

\* the target directory the callers pass
Targets == {<<"/", "t">>}

\* the filesystems a call can find
BaseFs == (<<>> :> DirNode) @@ (<<"b">> :> FileNode(<<7>>))

InitFs ==
    { BaseFs @@ (<<"t">> :> DirNode),
      BaseFs @@ (<<"t">> :> DirNode) @@ (<<"t", "b">> :> FileNode(<<9, 9, 9>>)),
      BaseFs @@ (<<"t">> :> DirNode) @@ (<<"t", "a">> :> DirNode)
             @@ (<<"t", "a", "b">> :> FileNode(<<9>>)),
      BaseFs,
      BaseFs @@ (<<"t">> :> FileNode(<<9>>)) }

\* the entry paths the callers ask for
EntryPaths ==
    { <<"b">>, <<"a", "b">>, <<"a">>, <<"a", "">>, <<"a", ".", "b">>, <<>>,
      <<"..", "b">>, <<"/", "b">>, <<"x">> }

\* the destinations extract_file is called with
Destinations == { <<"/", "t", "b">>, <<"/", "t", "a", "b">>, <<"/", "t", "a">> }

\* the contents the caller's buffer starts with
Buffers == { <<>>, <<5>> }

NoOp == [name |-> "none", target |-> <<>>, entry_path |-> <<>>, index |-> 0,
         destination |-> <<>>, overwrite |-> FALSE, buffer |-> <<>>]

Init ==
    /\ archive \in Archives
    /\ fs \in InitFs
    /\ fs0 = fs
    /\ op = NoOp
    /\ pc = "idle"
    /\ file_number_ = 0
    /\ result = "none"
    /\ buffer = <<>>
    /\ touched = {}
    /\ readLog = <<>>
    /\ found = None
    /\ sniffFile = <<>>
    /\ sniffResult = [fn |-> "none", ok |-> FALSE, value |-> FALSE]
    /\ relRoot = <<>>
    /\ relCurrent = <<>>
    /\ relResult = [called |-> FALSE, path |-> <<>>]

\* the number of bytes a call hands to file.write for entry file_no
WriteLen(arch, file_no) ==
    IF file_no < Len(arch) THEN Len(arch[file_no + 1].data) ELSE 0

\* zip_extract / extract, up to the loop: the target must be a directory
ExtractBegin ==
    /\ pc = "idle"
    /\ \E target \in Targets :
         /\ op' = [NoOp EXCEPT !.name = "extract", !.target = target]
         /\ IF ~is_dir(fs, target)
            THEN pc' = "done" /\ result' = "InvalidInput"
            ELSE pc' = "extract" /\ result' = result
    /\ file_number_' = 0
    /\ UNCHANGED <<archive, fs, fs0, buffer, touched, readLog, found>>
    /\ UNCHANGED sniffVars /\ UNCHANGED relVars

\* one iteration of extract's loop; an error returns
ExtractEntry ==
    /\ pc = "extract"
    /\ file_number_ < Len(archive)
    /\ \E w \in WriteOutcomes(WriteLen(archive, file_number_)) :
         LET step == extract_entry(archive, fs, file_number_, op.target, w)
         IN  /\ fs' = step.fs
             /\ touched' = touched \cup step.touched
             /\ readLog' = Append(readLog, file_number_)
             /\ IF step.res = "Ok"
                THEN /\ file_number_' = file_number_ + 1
                     /\ UNCHANGED <<pc, result>>
                ELSE /\ pc' = "done"
                     /\ result' = step.res
                     /\ UNCHANGED file_number_
    /\ UNCHANGED <<archive, fs0, op, buffer, found>>
    /\ UNCHANGED sniffVars /\ UNCHANGED relVars

\* the loop is over: Ok(())
ExtractReturn ==
    /\ pc = "extract"
    /\ file_number_ >= Len(archive)
    /\ pc' = "done"
    /\ result' = "Ok"
    /\ UNCHANGED <<archive, fs, fs0, op, file_number_, buffer, touched, readLog, found>>
    /\ UNCHANGED sniffVars /\ UNCHANGED relVars

ZipExtractFile ==
    /\ pc = "idle"
    /\ \E entry_path \in EntryPaths, target \in Targets, overwrite \in BOOLEAN :
       \E w \in WriteOutcomes(IF file_number(archive, entry_path) = None THEN 0
                               ELSE WriteLen(archive, file_number(archive, entry_path)[1])) :
         LET call == zip_extract_file(archive, fs, entry_path, target, overwrite, w)
         IN  /\ op' = [NoOp EXCEPT !.name = "zip_extract_file", !.target = target,
                          !.entry_path = entry_path, !.overwrite = overwrite,
                          !.destination = join(target, entry_path)]
             /\ fs' = call.fs
             /\ touched' = call.touched
             /\ result' = call.res
    /\ pc' = "done"
    /\ UNCHANGED <<archive, fs0, file_number_, buffer, readLog, found>>
    /\ UNCHANGED sniffVars /\ UNCHANGED relVars

ZipExtractFileToMemory ==
    /\ pc = "idle"
    /\ \E entry_path \in EntryPaths, buf \in Buffers :
         LET call == zip_extract_file_to_memory(archive, entry_path, buf)
         IN  /\ op' = [NoOp EXCEPT !.name = "zip_extract_file_to_memory",
                          !.entry_path = entry_path, !.buffer = buf]
             /\ buffer' = call.buffer
             /\ result' = call.res
    /\ pc' = "done"
    /\ UNCHANGED <<archive, fs, fs0, file_number_, touched, readLog, found>>
    /\ UNCHANGED sniffVars /\ UNCHANGED relVars

ExtractFile ==
    /\ pc = "idle"
    /\ \E index \in 0..MaxEntries, destination \in Destinations,
          overwrite \in BOOLEAN :
       \E w \in WriteOutcomes(WriteLen(archive, index)) :
         LET call == extract_file(archive, fs, index, destination, overwrite, w)
         IN  /\ op' = [NoOp EXCEPT !.name = "extract_file", !.index = index,
                          !.overwrite = overwrite, !.destination = destination]
             /\ fs' = call.fs
             /\ touched' = call.touched
             /\ result' = call.res
    /\ pc' = "done"
    /\ UNCHANGED <<archive, fs0, file_number_, buffer, readLog, found>>
    /\ UNCHANGED sniffVars /\ UNCHANGED relVars

ExtractFileToMemory ==
    /\ pc = "idle"
    /\ \E index \in 0..MaxEntries, buf \in Buffers :
         LET call == extract_file_to_memory(archive, index, buf)
         IN  /\ op' = [NoOp EXCEPT !.name = "extract_file_to_memory",
                          !.index = index, !.buffer = buf]
             /\ buffer' = call.buffer
             /\ result' = call.res
    /\ pc' = "done"
    /\ UNCHANGED <<archive, fs, fs0, file_number_, touched, readLog, found>>
    /\ UNCHANGED sniffVars /\ UNCHANGED relVars

FileNumber ==
    /\ pc = "idle"
    /\ \E entry_path \in EntryPaths :
         /\ op' = [NoOp EXCEPT !.name = "file_number", !.entry_path = entry_path]
         /\ found' = file_number(archive, entry_path)
    /\ pc' = "done"
    /\ result' = "Ok"
    /\ UNCHANGED <<archive, fs, fs0, file_number_, buffer, touched, readLog>>
    /\ UNCHANGED sniffVars /\ UNCHANGED relVars

Next ==
    \/ ExtractBegin
    \/ ExtractEntry
    \/ ExtractReturn
    \/ ZipExtractFile
    \/ ZipExtractFileToMemory
    \/ ExtractFile
    \/ ExtractFileToMemory
    \/ FileNumber

Spec == Init /\ [][Next]_vars

\* try_is_zip and is_zip applied to every file of SniffFiles
SniffSpecInit ==
    /\ SniffInit
    /\ archive = <<>> /\ fs = BaseFs /\ fs0 = BaseFs /\ op = NoOp /\ pc = "idle"
    /\ file_number_ = 0 /\ result = "none" /\ buffer = <<>> /\ touched = {}
    /\ readLog = <<>> /\ found = None
    /\ relRoot = <<>> /\ relCurrent = <<>>
    /\ relResult = [called |-> FALSE, path |-> <<>>]

SniffNext ==
    \/ TryIsZip /\ UNCHANGED extractVars /\ UNCHANGED relVars
    \/ IsZip /\ UNCHANGED extractVars /\ UNCHANGED relVars

SniffSpec == SniffSpecInit /\ [][SniffNext]_vars

\* make_relative_path applied to every pair of RelPaths
RelSpecInit ==
    /\ RelInit
    /\ archive = <<>> /\ fs = BaseFs /\ fs0 = BaseFs /\ op = NoOp /\ pc = "idle"
    /\ file_number_ = 0 /\ result = "none" /\ buffer = <<>> /\ touched = {}
    /\ readLog = <<>> /\ found = None
    /\ sniffFile = <<>>
    /\ sniffResult = [fn |-> "none", ok |-> FALSE, value |-> FALSE]

RelNext == MakeRelativePath /\ UNCHANGED extractVars /\ UNCHANGED sniffVars

RelSpec == RelSpecInit /\ [][RelNext]_vars

----------------------------------------------------------------------------
(* The claims *)

Done == pc = "done"

IsUnder(root, k) == Len(k) > Len(root) /\ SubSeq(k, 1, Len(root)) = root

\* the resolved target directory of the call
TargetKey == Resolve(fs0, op.target).key

\* the resolved destination of a single-entry extraction to disk
DestinationKey == Resolve(fs0, op.destination).key

SingleToDisk == Done /\ op.name \in {"zip_extract_file", "extract_file"}

DestinationExisted == path_exists(fs0, op.destination)

\* the index a single-entry extraction works on
ResolvedIndex ==
    IF op.name \in {"zip_extract_file", "zip_extract_file_to_memory"}
    THEN file_number(archive, op.entry_path)
    ELSE Some(op.index)

ResolvesToReadableFile ==
    /\ ResolvedIndex # None
    /\ ResolvedIndex[1] < Len(archive)
    /\ archive[ResolvedIndex[1] + 1].readable
    /\ archive[ResolvedIndex[1] + 1].kind = "file"
    /\ archive[ResolvedIndex[1] + 1].intact

\* C1: whatever extract or zip_extract_file creates or writes lies inside
\* the target directory, and every path that is not inside it is as it was
\* before the call.
C1_ConfinedToTarget ==
    op.name \in {"extract", "zip_extract_file"} =>
        /\ \A k \in touched : IsUnder(TargetKey, k)
        /\ \A k \in DOMAIN fs \cup DOMAIN fs0 :
              ~IsUnder(TargetKey, k) =>
                  k \in DOMAIN fs /\ k \in DOMAIN fs0 /\ fs[k] = fs0[k]

\* extract has written the entry stored as "../b" to b inside the target
C1_Witness ==
    /\ Done /\ op.name = "extract" /\ result = "Ok"
    /\ Len(archive) = 1
    /\ archive[1].name = <<"..", "b">>
    /\ touched = {Append(TargetKey, "b")}
    /\ IsFileKey(fs, Append(TargetKey, "b"))

\* C2 as stated, for an index the archive has: with overwrite = false and
\* an existing destination, single-entry extraction to disk fails with
\* AlreadyExists and the filesystem is as before.
C2_AlwaysAlreadyExists ==
    (/\ SingleToDisk /\ ~op.overwrite /\ DestinationExisted
     /\ ResolvedIndex # None /\ ResolvedIndex[1] < Len(archive)) =>
        result = "AlreadyExists" /\ fs = fs0

\* C2 amended: with overwrite = false and an existing destination the call
\* fails and the filesystem is as before; the error is AlreadyExists when
\* the entry is located, is yielded by the archive and is a plain file whose
\* data decodes.
C2_FailsUnmodified ==
    (SingleToDisk /\ ~op.overwrite /\ DestinationExisted) =>
        /\ result \notin {"Ok", "none"}
        /\ fs = fs0
        /\ touched = {}
        /\ ResolvesToReadableFile => result = "AlreadyExists"

C2_Witness ==
    /\ SingleToDisk /\ ~op.overwrite /\ DestinationExisted
    /\ ResolvesToReadableFile
    /\ IsFileKey(fs0, DestinationKey)
    /\ fs0[DestinationKey].data # archive[ResolvedIndex[1] + 1].data
    /\ result = "AlreadyExists"

\* C3: when single-entry extraction to disk with overwrite = true succeeds
\* on an existing destination, the destination holds exactly the entry's
\* decoded bytes.
C3_ExactContent ==
    (SingleToDisk /\ op.overwrite /\ DestinationExisted /\ result = "Ok") =>
        /\ ResolvedIndex # None
        /\ IsFileKey(fs, DestinationKey)
        /\ fs[DestinationKey].data = archive[ResolvedIndex[1] + 1].data

NoEntryHasPath(entry_path) ==
    \A i \in 1..Len(archive) : ~path_eq(sanitized_name(archive[i]), entry_path)

\* C4: when no entry's sanitized path equals entry_path, file_number returns
\* None and zip_extract_file and zip_extract_file_to_memory return
\* FileNotFound, the filesystem and the buffer left as they were.
C4_NotFound ==
    (Done /\ NoEntryHasPath(op.entry_path)) =>
        /\ op.name = "file_number" => found = None
        /\ op.name = "zip_extract_file" =>
              result = "FileNotFound" /\ fs = fs0 /\ touched = {}
        /\ op.name = "zip_extract_file_to_memory" =>
              result = "FileNotFound" /\ buffer = op.buffer

\* zip_extract_file has missed an entry of an archive that has entries,
\* with a target directory it could have written to
C4_Witness ==
    /\ Done /\ op.name = "zip_extract_file"
    /\ archive # <<>> /\ NoEntryHasPath(op.entry_path)
    /\ archive[1].kind = "file" /\ archive[1].readable /\ archive[1].intact
    /\ is_dir(fs0, op.target)
    /\ op.entry_path = <<"x">>
    /\ result = "FileNotFound"

\* C5: extract_file and extract_file_to_memory of an index whose entry is
\* no plain file fail with InvalidInput; no file is created and the buffer
\* keeps its content.
C5_NotAFile ==
    (/\ Done /\ op.name \in {"extract_file", "extract_file_to_memory"}
     /\ op.index < Len(archive)
     /\ archive[op.index + 1].readable
     /\ archive[op.index + 1].kind # "file") =>
        /\ result = "InvalidInput"
        /\ fs = fs0
        /\ touched = {}
        /\ buffer = op.buffer

\* extract_file_to_memory of a directory entry, the buffer not empty
C5_Witness ==
    /\ Done /\ op.name = "extract_file_to_memory"
    /\ op.index < Len(archive)
    /\ archive[op.index + 1].kind = "dir"
    /\ op.buffer # <<>>
    /\ result = "InvalidInput"

\* the signature test as the claim words it
LooksLikeZip(file) ==
    /\ Len(file) >= 4
    /\ file[1] = 80 /\ file[2] = 75
    /\ file[3] \in {3, 5, 7} \/ file[4] \in {4, 6, 8}

\* C6: for a file that can be read, try_is_zip and is_zip return true
\* exactly when it has 4 bytes or more, starts with 0x50 0x4B, and its third
\* byte is 0x03, 0x05 or 0x07 or its fourth 0x04, 0x06 or 0x08.
C6_Signature ==
    /\ (sniffResult.fn # "none" /\ sniffFile # NoFile) =>
           sniffResult.ok /\ (sniffResult.value <=> LooksLikeZip(sniffFile))
    /\ is_zip(<<80, 75, 3, 4>>)
    /\ ~is_zip(<<80, 75, 255, 255>>)

\* is_zip has accepted a file on its fourth byte alone
C6_Witness ==
    /\ sniffResult.fn = "is_zip"
    /\ sniffFile = <<80, 75, 255, 4>>
    /\ sniffResult.value

\* the first position (from 1) at which current has a component that root
\* does not have there, or Len(current) + 1
RECURSIVE FirstDivergence(_, _, _)
FirstDivergence(rc, cc, i) ==
    IF i > Len(cc) \/ i > Len(rc) \/ rc[i] # cc[i] THEN i
    ELSE FirstDivergence(rc, cc, i + 1)

\* C7 as stated: the result is what current has from the first position at
\* which it diverges from root, or goes beyond it.
C7_KeepsFromDivergence ==
    relResult.called =>
        LET rc == components(relRoot)
            cc == components(relCurrent)
        IN  components(relResult.path)
                = SubSeq(cc, FirstDivergence(rc, cc, 1), Len(cc))

\* C7 amended: when every component of root equals the component of current
\* at its position, the result is what current has after them; otherwise
\* (the two diverge inside root, or current ends inside root) it is empty.
C7_PrefixStrippedOrEmpty ==
    /\ relResult.called =>
           LET rc == components(relRoot)
               cc == components(relCurrent)
           IN  components(relResult.path)
                   = IF FirstDivergence(rc, cc, 1) > Len(rc)
                     THEN SubSeq(cc, Len(rc) + 1, Len(cc))
                     ELSE <<>>
    /\ make_relative_path(<<"/", "a", "b">>, <<"/", "a", "b", "c", "d">>) = <<"c", "d">>
    /\ make_relative_path(<<"/", "a", "b">>, <<"/", "x", "y">>) = <<>>

\* root and current diverge at their second component
C7_Witness ==
    /\ relResult.called
    /\ relRoot = <<"/", "a", "b">>
    /\ relCurrent = <<"/", "x", "b">>
    /\ relResult.path = <<>>


\* an archive whose entries are all yielded and decoded, are directories
\* and files with plain relative names, name distinct paths, and put no
\* file where another entry needs a directory
IsProperPrefix(p, q) == Len(p) < Len(q) /\ SubSeq(q, 1, Len(p)) = p

WellFormed(arch) ==
    /\ \A i \in 1..Len(arch) :
          /\ arch[i].readable /\ arch[i].intact
          /\ arch[i].kind \in {"dir", "file"}
          /\ sanitized_name(arch[i]) # <<>>
          /\ \A j \in 1..Len(arch[i].name) :
                \/ IsNormal(arch[i].name[j])
                \/ (arch[i].name[j] = "" /\ j = Len(arch[i].name) /\ arch[i].kind = "dir")
    /\ \A i, j \in 1..Len(arch) :
          i # j => /\ sanitized_name(arch[i]) # sanitized_name(arch[j])
                   /\ arch[i].kind = "file" =>
                         ~IsProperPrefix(sanitized_name(arch[i]), sanitized_name(arch[j]))

EmptyDirectory(fsys, key) ==
    IsDirKey(fsys, key) /\ \A k \in DOMAIN fsys : ~IsUnder(key, k)

\* C8: extract of a well-formed archive into an existing empty directory,
\* no write failing, returns Ok and leaves every directory entry a directory
\* and every file entry a file with the entry's bytes, whatever the order of
\* the entries and whether or not a file's directory has an entry.
C8_OrderIndependent ==
    (/\ Done /\ op.name = "extract"
     /\ WellFormed(archive)
     /\ EmptyDirectory(fs0, TargetKey)
     /\ result # "WriteFailed") =>
        /\ result = "Ok"
        /\ \A i \in 1..Len(archive) :
              LET k == TargetKey \o sanitized_name(archive[i])
              IN  IF archive[i].kind = "dir" THEN IsDirKey(fs, k)
                  ELSE IsFileKey(fs, k) /\ fs[k].data = archive[i].data

\* an iteration of extract's loop is about to run
InLoop == pc = "extract" /\ file_number_ < Len(archive)

\* the iteration returns an error
StepFails == InLoop /\ pc' = "done" /\ result' # "Ok"

\* the entry of the iteration, and where extract puts it
LoopEntry == archive[file_number_ + 1]
LoopPath == extracted_path(op.target, LoopEntry)

\* the error the iteration must return, "Ok" when nothing in the entry or
\* the filesystem makes it fail
MustFailWith ==
    IF ~LoopEntry.readable THEN "InvalidArchive"
    ELSE IF LoopEntry.kind = "dir"
         THEN create_dir_all(fs, LoopPath).err
    ELSE IF LoopEntry.kind = "file"
         THEN IF ~LoopEntry.intact THEN "InvalidData"
              ELSE File_create(fs, LoopPath).err
    ELSE "Ok"

\* ascending order, one entry read per iteration, a stop at the first entry
\* that fails, with its error
C9_OrderAndStop ==
    /\ InLoop => file_number_ = Len(readLog)
    /\ (InLoop /\ vars' # vars) =>
          /\ readLog' = Append(readLog, file_number_)
          /\ \/ pc' = "extract" /\ file_number_' = file_number_ + 1 /\ result' = "none"
             \/ StepFails /\ file_number_' = file_number_
          /\ MustFailWith # "Ok" => StepFails /\ result' = MustFailWith
          /\ StepFails => result' \in {MustFailWith, "WriteFailed"}
    /\ (op.name = "extract" /\ Done) => vars' = vars

\* C9 as stated: extract reads the entries in ascending order and stops at
\* the first that fails, returning its error; what the entries before it
\* created or wrote is still there, unchanged.
C9_StopsKeepsAll ==
    [][/\ C9_OrderAndStop
       /\ StepFails => \A k \in touched : k \in DOMAIN fs' /\ fs'[k] = fs[k]]_vars

\* C9 amended: as stated, except that the file at the failing entry's own
\* destination, when an earlier entry wrote it, is left empty by a write
\* that failed after File::create truncated it.
C9_StopsKeepsOthers ==
    [][/\ C9_OrderAndStop
       /\ StepFails =>
             \A k \in touched :
                /\ k \in DOMAIN fs'
                /\ \/ fs'[k] = fs[k]
                   \/ /\ result' = "WriteFailed"
                      /\ k = Resolve(fs, LoopPath).key
                      /\ fs'[k] = FileNode(<<>>)]_vars

\* extract has failed on its second entry, what the first wrote still there
C9_Witness ==
    /\ Done /\ op.name = "extract"
    /\ result \notin {"Ok", "none"}
    /\ file_number_ = 1
    /\ readLog = <<0, 1>>
    /\ archive[1].kind = "file"
    /\ touched # {}
    /\ \A k \in touched : IsFileKey(fs, k) /\ fs[k].data # <<>>

\* the indices whose entry is yielded and has the sanitized path asked for
MatchSet ==
    {i \in 0..(Len(archive) - 1) :
        archive[i + 1].readable /\ path_eq(sanitized_name(archive[i + 1]), op.entry_path)}

Lowest(S) == CHOOSE i \in S : \A j \in S : i <= j

IsPrefixOf(p, q) == Len(p) <= Len(q) /\ SubSeq(q, 1, Len(p)) = p

\* C10: file_number returns the lowest index whose entry is yielded and has
\* the sanitized path asked for, None when there is none; single-entry
\* extraction takes the entry of that index.
C10_LowestIndex ==
    Done =>
        /\ op.name = "file_number" =>
              found = IF MatchSet = {} THEN None ELSE Some(Lowest(MatchSet))
        /\ (op.name = "zip_extract_file_to_memory" /\ result = "Ok") =>
              /\ MatchSet # {}
              /\ buffer = op.buffer \o archive[Lowest(MatchSet) + 1].data
        /\ (op.name = "zip_extract_file" /\ result = "Ok") =>
              /\ MatchSet # {}
              /\ IsFileKey(fs, DestinationKey)
              /\ fs[DestinationKey].data # <<>>
              /\ IsPrefixOf(fs[DestinationKey].data, archive[Lowest(MatchSet) + 1].data)

\* two entries of one path and different bytes: the first is extracted
C10_Witness ==
    /\ Done /\ op.name = "zip_extract_file_to_memory" /\ result = "Ok"
    /\ Len(archive) = 2
    /\ MatchSet = {0, 1}
    /\ archive[1].data # archive[2].data
    /\ buffer = op.buffer \o archive[1].data


====
